---- MODULE Spec2Model ----
(***************************************************************************)
(* Cross-device status sync of Hamilton TMS: the RealTimeUpdater poller    *)
(* (realtime updater class), cycleRouteStatus of static/js/main.js, the    *)
(* rendered route rows, the connection indicator, the status store the two *)
(* endpoints expose and the AudioNotificationSystem of static/js/audio.js. *)
(*                                                                         *)
(* One browser tab is modelled (single-threaded, run-to-completion: every  *)
(* action is the code that runs between two suspension points).  Other     *)
(* devices appear only through their writes to the status store.           *)
(***************************************************************************)
EXTENDS Integers, Sequences, FiniteSets, Bags, TLC

VARIABLES
    currentPage,    \* RealTimeUpdater.currentPage
    isPolling,      \* RealTimeUpdater.isPolling
    pollTimer,      \* RealTimeUpdater.pollTimer: Null, or a handle that is
                    \* "pending" (its timer has not fired) or "fired"
    lastUpdate,     \* RealTimeUpdater.lastUpdate: the sync cursor
    inflight,       \* bag of the sync fetches awaiting their response
    timers,         \* number of pending setTimeout(() => this.poll()) timers
    indicator,      \* #connection-indicator: [exists, state, display]
    hideTimers,     \* pending 3000 ms auto-hide timers of the indicator
    rows,           \* the rendered table: route -> row with its status button
    cycleReq,       \* route -> the cycle-status POST started from its button
    enableTimers,   \* routes whose 300 ms re-enable timer is pending
    lastUserAction, \* localStorage 'lastUserAction' (0 when absent)
    guardedUntil,   \* ChangeGuard entries: route -> guarded_until (0: none)
    now,            \* Date.now()
    serverStatus,   \* StatusStore: route -> status
    updatedAt,      \* StatusStore: route -> server timestamp of last write
    serverTime,     \* StatusStore: the server's timestamp source
    refresh,        \* content-only refresh: [stage, snapshot]
    reloaded,       \* window.location.reload() has been called
    util,           \* a debounce(func, wait) and a throttle(func, limit)
                    \* wrapper of main.js with their timers and clock
    audio,          \* window.audioSystem: the AudioNotificationSystem, its
                    \* AudioContext and its document listeners
    last            \* history: what the step just taken did

vars == <<currentPage, isPolling, pollTimer, lastUpdate, inflight, timers,
          indicator, hideTimers, rows, cycleReq, enableTimers, lastUserAction,
          guardedUntil, now, serverStatus, updatedAt, serverTime, refresh,
          reloaded, audio, util, last>>

pollerVars == <<isPolling, pollTimer, lastUpdate, inflight, timers>>
domVars    == <<rows, cycleReq, enableTimers>>
guardVars  == <<lastUserAction, guardedUntil>>
serverVars == <<serverStatus, updatedAt, serverTime>>

----------------------------------------------------------------------------
(* Bounds of the model *)

MaxChains     == 2   \* sync fetches in flight plus poll timers pending
MaxTimestamp  == 1   \* largest timestamp an arbitrary sync response carries
MaxWrites     == 3   \* writes the status store accepts
MaxTicks      == 3   \* clock ticks taken
MaxHideTimers == 1   \* pending auto-hide timers
TickMs        == 5000 \* milliseconds per clock tick
NumPatchRoutes == 2  \* routes of the table updateRouteData is checked on
MaxClock      == 5   \* instants of the clock the utility wrappers run on
MaxWait       == 2   \* largest wait / limit, in clock instants

(* Program constants *)

pollInterval     == 5000   \* this.pollInterval
GUARD_WINDOW     == 5000   \* "5-second user change protection"
PROPAGATION_MS   == 2000   \* "reflected across devices within 2 seconds"
USER_ACTION_MS   == 10000  \* isUserAction: (now - lastAction) < 10000
Undefined        == -1     \* a missing data.timestamp (JS undefined)
Null             == "null" \* pollTimer = null

Routes     == {1}
RouteOrder == <<1>>        \* Object.entries order of integer-like keys
Status     == {"not_present", "arrived", "ready"}
Colors     == {"danger", "warning", "success"}
Pages      == {"routes", "dashboard", "students", "staff", "schools", "general"}
\* a pathname, as the set of the fragments it contains ({} is a path such as "/")
Fragments  == {"/routes", "/dashboard", "/students", "/staff", "/schools"}
Paths      == SUBSET Fragments

----------------------------------------------------------------------------
(* Pure helpers *)

\* getCurrentPage(): the first matching path fragment wins
getCurrentPage(path) ==
    IF "/routes" \in path THEN "routes"
    ELSE IF "/dashboard" \in path THEN "dashboard"
    ELSE IF "/students" \in path THEN "students"
    ELSE IF "/staff" \in path THEN "staff"
    ELSE IF "/schools" \in path THEN "schools"
    ELSE "general"

\* init() with the test turned into `currentPage !== 'general'`
syncEnabled_ExceptGeneral(page) == page # "general"

\* init(): the page on which the constructor starts polling
syncEnabled(page) == page = "routes"

\* the switch with the 'ready' case falling back to 'arrived'
NextStatus_ReadyToArrived(s) ==
    CASE s = "not_present" -> "arrived"
      [] s = "arrived"     -> "ready"
      [] s = "ready"       -> "arrived"
      [] OTHER             -> "not_present"

\* cycleRouteStatus: switch(currentStatus)
NextStatus(s) ==
    CASE s = "not_present" -> "arrived"
      [] s = "arrived"     -> "ready"
      [] s = "ready"       -> "not_present"
      [] OTHER             -> "not_present"

\* cycleRouteStatus: ready ? 'success' : arrived ? 'warning' : 'danger'
ColorOf(s) ==
    IF s = "ready" THEN "success" ELSE IF s = "arrived" THEN "warning" ELSE "danger"

\* the innerHTML written for a status (both in main.js and in updateRouteData)
LabelOf(s) ==
    IF s = "ready" THEN "Ready" ELSE IF s = "arrived" THEN "Arrived" ELSE "Not Present"

\* `status-button btn btn-${color}`: className as its sequence of class tokens
ClassOf(color) == <<"status-button", "btn", color>>

\* element.classList.add('loading')
AddLoading(cls) ==
    IF \E i \in 1..Len(cls) : cls[i] = "loading" THEN cls ELSE Append(cls, "loading")

\* element.classList.remove('loading')
RemoveLoading(cls) == SelectSeq(cls, LAMBDA t : t # "loading")

\* a row as the server renders it for a route in status s
RenderRow(s) ==
    [present |-> TRUE, className |-> ClassOf(ColorOf(s)), currentStatus |-> s,
     innerHTML |-> LabelOf(s), processing |-> FALSE, disabled |-> FALSE,
     changeListener |-> TRUE]

\* no <tr> for the route in the table
AbsentRow ==
    [present |-> FALSE, className |-> <<>>, currentStatus |-> "not_present",
     innerHTML |-> "Not Present", processing |-> FALSE, disabled |-> FALSE,
     changeListener |-> FALSE]

\* child.cloneNode(true): attributes and content are copied, listeners are not
cloneNode(row) == [row EXCEPT !.changeListener = FALSE]

\* a row of the document parsed from the fetched page, for a route in status s
ParsedRow(s) == cloneNode(RenderRow(s))

\* the swap without its call of initializeRouteEvents()
initializeRouteEvents_Skipped(rs) == rs

\* initializeRouteEvents(): every .route-checkbox of the document gets its
\* change listener
initializeRouteEvents(rs) ==
    [r \in DOMAIN rs |->
        IF rs[r].present THEN [rs[r] EXCEPT !.changeListener = TRUE] ELSE rs[r]]

\* entries of data.routes: no key, a null value, or {status, status_color}
NoDelta   == [kind |-> "none", status |-> "not_present", status_color |-> "danger"]
NullDelta == [kind |-> "null", status |-> "not_present", status_color |-> "danger"]
Deltas    == {[kind |-> "delta", status |-> s, status_color |-> ColorOf(s)] :
                 s \in Status}
             \cup {[kind |-> "delta", status |-> "ready", status_color |-> "danger"]}
DeltaOpt  == {NoDelta, NullDelta} \cup Deltas
NoRoutes  == [r \in Routes |-> NoDelta]

\* the JSON bodies /api/sync/{page} can answer with: `routes` may be absent
\* (hasRoutes FALSE), and so may `timestamp` (Undefined)
Timestamps == {Undefined} \cup (0..MaxTimestamp)

RoutesFields == {<<FALSE, NoRoutes>>} \cup ({TRUE} \X [Routes -> DeltaOpt])

Payloads ==
    {[success |-> ok, timestamp |-> ts, routes_updated |-> ru,
      hasRoutes |-> rf[1], routes |-> rf[2], needs_refresh |-> nr] :
        ok \in BOOLEAN, ts \in Timestamps, ru \in BOOLEAN, nr \in BOOLEAN,
        rf \in RoutesFields}

----------------------------------------------------------------------------
(* The view patcher: pure functions over the rendered rows *)

\* updateRouteData applying a delta only to a button the local user has
\* touched before: a row without a local change is never patched
PatchRow_OnlyLocallyChanged(row, d) ==
    LET newClass == ClassOf(d.status_color) IN
    IF row.className # newClass /\ (row.processing \/ row.disabled)
    THEN [row EXCEPT !.className = newClass,
                     !.currentStatus = d.status,
                     !.innerHTML = LabelOf(d.status)]
    ELSE row

\* updateRouteData with `statusButton.classList.add(...)` in place of the
\* assignment to className: the old colour class stays
PatchRow_ClassListAdd(row, d) ==
    LET newClass == ClassOf(d.status_color) IN
    IF row.className # newClass
    THEN [row EXCEPT !.className = Append(@, d.status_color),
                     !.currentStatus = d.status,
                     !.innerHTML = LabelOf(d.status)]
    ELSE row

\* updateRouteData, lines 101-124: one [routeId, routeData] entry
PatchRow(row, d) ==
    LET newClass == ClassOf(d.status_color) IN
    IF row.className # newClass
    THEN [row EXCEPT !.className = newClass,
                     !.currentStatus = d.status,
                     !.innerHTML = LabelOf(d.status)]
    ELSE row

\* updateRouteData: the for loop over Object.entries(routes), from entry i on.
\* A null routeData throws at routeData.status_color once the row and its
\* button were found; the entries before it stay patched.
RECURSIVE updateRouteDataFrom(_, _, _, _)
\* the for loop with `return` where the code skips a route without a row:
\* the entries after it are not applied
updateRouteDataFrom_StopAtMissing(rs, routes, order, i) ==
    IF i > Len(order) THEN [rows |-> rs, threw |-> FALSE]
    ELSE LET r == order[i]
             d == routes[r]
         IN  IF d.kind = "none"
             THEN updateRouteDataFrom(rs, routes, order, i + 1)
             ELSE IF ~rs[r].present
             THEN [rows |-> rs, threw |-> FALSE]
             ELSE IF d.kind = "null"
             THEN [rows |-> rs, threw |-> TRUE]
             ELSE updateRouteDataFrom([rs EXCEPT ![r] = PatchRow(rs[r], d)],
                                      routes, order, i + 1)

updateRouteDataFrom(rs, routes, order, i) ==
    IF i > Len(order) THEN [rows |-> rs, threw |-> FALSE]
    ELSE LET r == order[i]
             d == routes[r]
         IN  IF d.kind = "none" \/ ~rs[r].present
             THEN updateRouteDataFrom(rs, routes, order, i + 1)
             ELSE IF d.kind = "null"
             THEN [rows |-> rs, threw |-> TRUE]
             ELSE updateRouteDataFrom([rs EXCEPT ![r] = PatchRow(rs[r], d)],
                                      routes, order, i + 1)

updateRouteData(rs, routes) == updateRouteDataFrom(rs, routes, RouteOrder, 1)

\* isUserAction() with `<=` for `<`
isUserAction_Inclusive(lastAction, t) == (t - lastAction) <= USER_ACTION_MS

\* isUserAction(): a user action within the last 10 seconds
isUserAction(lastAction, t) == (t - lastAction) < USER_ACTION_MS

\* handleSyncData without the `return` after window.location.reload(true)
handleSyncData_NoReturn(page, data, rs, lastAction, t) ==
    LET reload == page = "routes" /\ data.routes_updated IN
    IF page = "routes" /\ data.hasRoutes
    THEN LET u == updateRouteData(rs, data.routes) IN
         [reload |-> reload, rows |-> u.rows,
          refresh |-> ~u.threw /\ data.needs_refresh, threw |-> u.threw]
    ELSE IF page = "students" /\ data.needs_refresh
    THEN [reload |-> reload, rows |-> rs,
          refresh |-> ~isUserAction(lastAction, t), threw |-> FALSE]
    ELSE [reload |-> reload, rows |-> rs, refresh |-> FALSE, threw |-> FALSE]

\* handleSyncData with `data.routes` not tested before updateRouteData:
\* Object.entries(undefined) throws
handleSyncData_NoRoutesCheck(page, data, rs, lastAction, t) ==
    IF page = "routes" /\ data.routes_updated
    THEN [reload |-> TRUE, rows |-> rs, refresh |-> FALSE, threw |-> FALSE]
    ELSE IF page = "routes"
    THEN LET u == IF data.hasRoutes THEN updateRouteData(rs, data.routes)
                  ELSE [rows |-> rs, threw |-> TRUE] IN
         [reload |-> FALSE, rows |-> u.rows,
          refresh |-> ~u.threw /\ data.needs_refresh, threw |-> u.threw]
    ELSE IF page = "students" /\ data.needs_refresh
    THEN [reload |-> FALSE, rows |-> rs,
          refresh |-> ~isUserAction(lastAction, t), threw |-> FALSE]
    ELSE [reload |-> FALSE, rows |-> rs, refresh |-> FALSE, threw |-> FALSE]

\* handleSyncData with the route deltas dropped while isUserAction() holds:
\* the 10 s notification window used as if it were the guard
handleSyncData_SkipRecent(page, data, rs, lastAction, t) ==
    IF page = "routes" /\ data.routes_updated
    THEN [reload |-> TRUE, rows |-> rs, refresh |-> FALSE, threw |-> FALSE]
    ELSE IF page = "routes" /\ data.hasRoutes
    THEN LET u == IF isUserAction(lastAction, t)
                  THEN [rows |-> rs, threw |-> FALSE]
                  ELSE updateRouteData(rs, data.routes) IN
         [reload |-> FALSE, rows |-> u.rows,
          refresh |-> ~u.threw /\ data.needs_refresh, threw |-> u.threw]
    ELSE IF page = "students" /\ data.needs_refresh
    THEN [reload |-> FALSE, rows |-> rs,
          refresh |-> ~isUserAction(lastAction, t), threw |-> FALSE]
    ELSE [reload |-> FALSE, rows |-> rs, refresh |-> FALSE, threw |-> FALSE]

\* handleSyncData(data): what one success payload does to the page
\*   reload:  window.location.reload(true)
\*   rows:    the rows after updateRouteData
\*   refresh: a content-only refresh was started (routes or students)
\*   threw:   an exception escaped to poll()'s catch
handleSyncData(page, data, rs, lastAction, t) ==
    IF page = "routes" /\ data.routes_updated
    THEN [reload |-> TRUE, rows |-> rs, refresh |-> FALSE, threw |-> FALSE]
    ELSE IF page = "routes" /\ data.hasRoutes
    THEN LET u == updateRouteData(rs, data.routes) IN
         [reload |-> FALSE, rows |-> u.rows,
          refresh |-> ~u.threw /\ data.needs_refresh, threw |-> u.threw]
    ELSE IF page = "students" /\ data.needs_refresh
    THEN [reload |-> FALSE, rows |-> rs,
          refresh |-> ~isUserAction(lastAction, t), threw |-> FALSE]
    ELSE [reload |-> FALSE, rows |-> rs, refresh |-> FALSE, threw |-> FALSE]

----------------------------------------------------------------------------
(* The connection indicator *)

NoIndicator == [exists |-> FALSE, state |-> "none", display |-> ""]

\* showConnectionStatus(status): the element is created on first use; the
\* 'connected' case leaves style.display as it is and starts the auto-hide timer
showConnectionStatus(ind, status) ==
    IF status = "connected"
    THEN [exists |-> TRUE, state |-> "connected", display |-> ind.display]
    ELSE [exists |-> TRUE, state |-> "disconnected", display |-> "block"]

----------------------------------------------------------------------------
(* ChangeGuard *)

\* markChanged(route_id): guarded_until = now + GUARD_WINDOW
trackUserUpdate(g, r, t) == [g EXCEPT ![r] = t + GUARD_WINDOW]

\* isGuarded(route_id): now < guarded_until (no entry: false)
isGuarded(r) == now < guardedUntil[r]

----------------------------------------------------------------------------
(* History records *)

NoPayload ==
    [success |-> FALSE, timestamp |-> Undefined, routes_updated |-> FALSE,
     hasRoutes |-> FALSE, routes |-> NoRoutes, needs_refresh |-> FALSE]

\* the step just taken: the operation, the route it was about (0: none), how
\* it ended and, for a sync response that was handed to handleSyncData, its
\* payload and the routes whose rendered row it changed
Did(op, r, outcome, data) ==
    [op |-> op, arg |-> r, outcome |-> outcome, data |-> data, patched |-> {},
     tones |-> 0]

\* a sync fetch on the wire: the cursor its URL carries and, once the status
\* store has answered it, the answer
Fetch(cursor) ==
    [page |-> currentPage, cursor |-> cursor, answered |-> FALSE,
     resp |-> NoPayload]

InFlight == BagCardinality(inflight)

Chains == InFlight + timers

----------------------------------------------------------------------------
(* debounce(func, wait) and throttle(func, limit) of static/js/main.js *)

\* the arguments a wrapper is called with
Args == {1, 2}

\* no time recorded yet
Never == -1

\* `let timeout;` before the first call
NoTimer == [due |-> Never, arg |-> 0]

\* a fresh debounce(func, wait): its closure variable `timeout` and the
\* setTimeout timers it has pending, each with the args of its call
Debounce(wait) == [wait |-> wait, timeout |-> NoTimer, timers |-> {}]

\* a fresh throttle(func, limit): its closure variable inThrottle and the
\* pending timers that reset it
Throttle(limit) == [limit |-> limit, inThrottle |-> FALSE, timers |-> {}]

\* executedFunction without its clearTimeout(timeout)
executedFunction_NoClear(d, a, t) ==
    LET tm == [due |-> t + d.wait, arg |-> a] IN
    [d EXCEPT !.timers = @ \cup {tm}, !.timeout = tm]

\* executedFunction(...args) called at time t: the pending timer is cleared
\* and one for these args is set, due wait later
executedFunction(d, a, t) ==
    LET tm == [due |-> t + d.wait, arg |-> a] IN
    [d EXCEPT !.timers = (@ \ {d.timeout}) \cup {tm}, !.timeout = tm]

\* later(), the callback of timer tm: clearTimeout(timeout), then func(...args)
later(d, tm) == [d EXCEPT !.timers = (@ \ {tm}) \ {d.timeout}]

\* the throttled function never setting inThrottle
throttled_NoFlag(th, t) ==
    IF ~th.inThrottle
    THEN [th EXCEPT !.timers = @ \cup {t + th.limit}]
    ELSE th

\* the function throttle returns, called at time t: outside the window it
\* invokes func, sets inThrottle and the timer that resets it; inside, nothing
throttled(th, t) ==
    IF ~th.inThrottle
    THEN [th EXCEPT !.inThrottle = TRUE, !.timers = @ \cup {t + th.limit}]
    ELSE th

\* the wrappers before their first call, with the history of their calls:
\*   lastCall, lastArg: the latest call of the debounced function
\*   burst:    calls of it since func last ran (2: two or more)
\*   lastRun:  when the debounced func last ran
\*   ranFor:   the calls of the burst it last ran for (2: two or more)
\*   lastInvoke: when the throttled func last ran
UtilWith(wait, limit) ==
    [clock |-> 0, debounce |-> Debounce(wait), throttle |-> Throttle(limit),
     lastCall |-> Never, lastArg |-> 0, burst |-> 0, lastRun |-> Never,
     ranFor |-> 0,
     lastInvoke |-> Never]

NoUtil == UtilWith(1, 1)

----------------------------------------------------------------------------
(* The audio notification system (static/js/audio.js) *)

\* this.chordNotes: C4, E4, G4, in hundredths of a hertz
chordNotes == <<26163, 32963, 39200>>

\* the document events initAudio is registered for, each with {once: true}
InteractionEvents == {"touchstart", "touchend", "mousedown", "keydown", "click"}

\* AudioContext.state (or no context at all)
ContextStates == {"suspended", "running"}

\* window.audioSystem while audio.js is not on the page
NoAudioSystem ==
    [loaded |-> FALSE, isClassAccount |-> FALSE, isSupported |-> FALSE,
     isInitialized |-> FALSE, audioContext |-> Null, listeners |-> {},
     resuming |-> 0]

\* window.isClassAccount as the server template leaves it
ServerFlags == {"undefined", "true", "false"}

\* detectClassAccount(): the server's variable when there is one; otherwise
\* the class markers of the page (URL, body class, data attribute, indicator
\* element), and failing those a routes or dashboard page without admin links
detectClassAccount(serverFlag, markers, hasAdminElements, path) ==
    IF serverFlag # "undefined" THEN serverFlag = "true"
    ELSE IF markers THEN TRUE
    ELSE /\ ~hasAdminElements
         /\ ("/routes" \in path \/ "/dashboard" \in path)

\* new AudioNotificationSystem(): init() sets the context up and registers
\* the listeners for a class account with audio support only; a constructor
\* of AudioContext that throws clears isSupported
AudioNotificationSystem(isClass, supported, ctorThrows, state) ==
    IF isClass /\ supported
    THEN [loaded |-> TRUE, isClassAccount |-> TRUE,
          isSupported |-> ~ctorThrows, isInitialized |-> FALSE,
          audioContext |-> IF ctorThrows THEN Null ELSE state,
          listeners |-> InteractionEvents, resuming |-> 0]
    ELSE [NoAudioSystem EXCEPT !.loaded = TRUE, !.isClassAccount = isClass,
                               !.isSupported = supported]

\* initAudio marking the system initialised before resume() has completed
initAudio_EagerInit(a, e) ==
    LET once == [a EXCEPT !.listeners = @ \ {e}] IN
    IF a.audioContext = "suspended"
    THEN [once EXCEPT !.resuming = @ + 1, !.isInitialized = TRUE]
    ELSE IF a.audioContext = "running"
    THEN [once EXCEPT !.isInitialized = TRUE, !.listeners = {}]
    ELSE once

\* initAudio, run by the listener of event e (which {once: true} removes
\* first): a suspended context is asked to resume, a running one makes the
\* system initialised and drops the remaining listeners
initAudio(a, e) ==
    LET once == [a EXCEPT !.listeners = @ \ {e}] IN
    IF a.audioContext = "suspended"
    THEN [once EXCEPT !.resuming = @ + 1]
    ELSE IF a.audioContext = "running"
    THEN [once EXCEPT !.isInitialized = TRUE, !.listeners = {}]
    ELSE once

\* createTone(): the number of oscillators it starts
createTone(a, frequency) ==
    IF a.audioContext = Null \/ ~a.isInitialized THEN 0 ELSE 1

\* canPlayAudio() without the test of the context's state
canPlayAudio_NoStateCheck(a) ==
    /\ a.isClassAccount
    /\ a.isSupported
    /\ a.isInitialized
    /\ a.audioContext # Null

\* canPlayAudio()
canPlayAudio(a) ==
    /\ a.isClassAccount
    /\ a.isSupported
    /\ a.isInitialized
    /\ a.audioContext # Null
    /\ a.audioContext = "running"

RECURSIVE playNotes(_, _)
\* chordNotes.forEach(createTone) from note i on: the oscillators started
playNotes(a, i) ==
    IF i > Len(chordNotes) THEN 0
    ELSE createTone(a, chordNotes[i]) + playNotes(a, i + 1)

\* playChord(): the number of oscillators started
playChord(a) == IF ~canPlayAudio(a) THEN 0 ELSE playNotes(a, 1)

\* onRouteStatusChange(), onBulkOperation() and the playing half of
\* testAudio(): the chord when canPlayAudio()
notify(a) == IF canPlayAudio(a) THEN playChord(a) ELSE 0

\* main.js: `if (window.audioSystem && ...) window.audioSystem.onRouteStatusChange()`
onRouteStatusChange(a) == IF a.loaded THEN notify(a) ELSE 0

----------------------------------------------------------------------------
(* Init: the state right after `new RealTimeUpdater()` on a freshly rendered *)
(* page.  The constructor runs init(), which on the routes page runs         *)
(* startPolling(): isPolling is set, poll() issues the first fetch with      *)
(* last_update=0 and the indicator shows 'connected'.  Elsewhere init()      *)
(* calls stopPolling(), which leaves the fresh fields as they are.           *)

StartTime == 4 * TickMs   \* Date.now() at page load, at least USER_ACTION_MS

NoRefresh == [stage |-> "idle", snapshot |-> [r \in Routes |-> AbsentRow],
              opacity |-> "1"]

NoReq == [stage |-> "none", ok |-> FALSE, status |-> "not_present",
          detached |-> FALSE]

\* the constructor's result on page `page` whose table renders the rows rs
InitWith(page, rs, au) ==
        /\ currentPage = page
        /\ lastUpdate = 0
        /\ pollTimer = Null
        /\ isPolling = syncEnabled(currentPage)
        /\ inflight = IF syncEnabled(currentPage)
                      THEN SetToBag({Fetch(0)}) ELSE EmptyBag
        /\ timers = 0
        /\ indicator = IF syncEnabled(currentPage)
                       THEN showConnectionStatus(NoIndicator, "connected")
                       ELSE NoIndicator
        /\ hideTimers = IF syncEnabled(currentPage) THEN 1 ELSE 0
        /\ serverStatus = [r \in Routes |-> "not_present"]
        /\ updatedAt = [r \in Routes |-> 0]
        /\ serverTime = 0
        /\ rows = rs
        /\ cycleReq = [r \in Routes |-> NoReq]
        /\ enableTimers = {}
        /\ lastUserAction = 0
        /\ guardedUntil = [r \in Routes |-> 0]
        /\ now = StartTime
        /\ refresh = NoRefresh
        /\ reloaded = FALSE
        /\ audio = au
        /\ last = Did("construct", 0, "", NoPayload)

Init ==
    /\ \E path \in Paths :
          InitWith(getCurrentPage(path),
                   IF getCurrentPage(path) = "routes"
                   THEN [r \in Routes |-> RenderRow("not_present")]
                   ELSE [r \in Routes |-> AbsentRow],
                   NoAudioSystem)
    /\ util = NoUtil

----------------------------------------------------------------------------
(* The poller *)

\* poll(), up to its first await: returns at once when not polling,
\* otherwise sends GET /api/sync/{page}?last_update={lastUpdate}
poll(polling) ==
    IF polling
    THEN inflight' = inflight (+) SetToBag({Fetch(lastUpdate)})
    ELSE inflight' = inflight

\* startPolling() without its `if (this.isPolling) return`
startPolling_NoGuard ==
    /\ ~reloaded
    /\ Chains < MaxChains
    /\ hideTimers < MaxHideTimers
    /\ isPolling' = TRUE
    /\ poll(TRUE)
    /\ indicator' = showConnectionStatus(indicator, "connected")
    /\ hideTimers' = hideTimers + 1
    /\ last' = Did("startPolling", 0, IF isPolling THEN "noop" ELSE "started",
                   NoPayload)
    /\ UNCHANGED <<util, audio, currentPage, pollTimer, lastUpdate, timers, domVars,
                   guardVars, now, serverVars, refresh, reloaded>>

\* startPolling()
startPolling ==
    /\ ~reloaded
    /\ IF isPolling
       THEN UNCHANGED <<isPolling, inflight, indicator, hideTimers>>
       ELSE /\ Chains < MaxChains
            /\ hideTimers < MaxHideTimers
            /\ isPolling' = TRUE
            /\ poll(TRUE)
            /\ indicator' = showConnectionStatus(indicator, "connected")
            /\ hideTimers' = hideTimers + 1
    /\ last' = Did("startPolling", 0, IF isPolling THEN "noop" ELSE "started",
                   NoPayload)
    /\ UNCHANGED <<util, audio, currentPage, pollTimer, lastUpdate, timers, domVars,
                   guardVars, now, serverVars, refresh, reloaded>>

\* stopPolling()
stopPolling ==
    /\ ~reloaded
    /\ isPolling' = FALSE
    /\ IF pollTimer # Null
       THEN /\ timers' = IF pollTimer = "pending" THEN timers - 1 ELSE timers
            /\ pollTimer' = Null
       ELSE UNCHANGED <<timers, pollTimer>>
    /\ last' = Did("stopPolling", 0, "", NoPayload)
    /\ UNCHANGED <<util, audio, currentPage, lastUpdate, inflight, indicator, hideTimers,
                   domVars, guardVars, now, serverVars, refresh, reloaded>>

\* a setTimeout(() => this.poll(), pollInterval) callback runs: that of the
\* timer pollTimer holds (mine), or of an older one whose handle was overwritten
pollTimerFires(mine) ==
    /\ ~reloaded
    /\ IF mine THEN pollTimer = "pending"
               ELSE timers > (IF pollTimer = "pending" THEN 1 ELSE 0)
    /\ timers' = timers - 1
    /\ pollTimer' = IF mine THEN "fired" ELSE pollTimer
    /\ poll(isPolling)
    /\ last' = Did("pollTimer", 0, IF isPolling THEN "fetch" ELSE "return",
                   NoPayload)
    /\ UNCHANGED <<util, audio, currentPage, isPolling, lastUpdate, indicator,
                   hideTimers, domVars, guardVars, now, serverVars, refresh,
                   reloaded>>

\* poll(), lines 61-64 as `if (this.isPolling && !this.pollTimer)`: no next
\* poll while pollTimer still holds the handle of the previous one
scheduleNext_IfNoHandle ==
    IF isPolling /\ pollTimer = Null
    THEN /\ timers' = timers + 1
         /\ pollTimer' = "pending"
    ELSE UNCHANGED <<timers, pollTimer>>

\* poll(), lines 61-64: schedule the next poll when still polling
scheduleNext ==
    IF isPolling
    THEN /\ timers' = timers + 1
         /\ pollTimer' = "pending"
    ELSE UNCHANGED <<timers, pollTimer>>

\* the 3000 ms auto-hide timer of showConnectionStatus('connected')
hideTimerFires ==
    /\ ~reloaded
    /\ hideTimers > 0
    /\ hideTimers' = hideTimers - 1
    /\ indicator' = [indicator EXCEPT !.display = "none"]
    /\ last' = Did("hideTimer", 0, "", NoPayload)
    /\ UNCHANGED <<util, audio, currentPage, pollerVars, domVars, guardVars, now,
                   serverVars, refresh, reloaded>>

\* poll() with `this.lastUpdate = data.timestamp` moved out of
\* `if (data.success)`
pollResult_CursorAlways(outcome, data, page, rs, cursor, ind, lastAction, t) ==
    LET h == handleSyncData(page, data, rs, lastAction, t)
        applies == outcome = "ok" /\ data.success
        caught  == outcome \in {"fetchThrows", "jsonThrows"}
                   \/ (applies /\ h.threw)
    IN  [ended      |-> IF outcome # "ok" THEN outcome
                        ELSE IF ~data.success THEN "successFalse"
                        ELSE IF h.threw THEN "patchThrows" ELSE "success",
         rows       |-> IF applies THEN h.rows ELSE rs,
         reload     |-> applies /\ h.reload,
         refresh    |-> applies /\ h.refresh,
         lastUpdate |-> IF outcome = "ok" /\ ~(applies /\ h.threw)
                        THEN data.timestamp ELSE cursor,
         indicator  |-> IF caught THEN showConnectionStatus(ind, "disconnected")
                        ELSE ind]

\* poll(), lines 45-59: what the settled fetch does.  outcome is one of
\*   "fetchThrows" (fetch rejects), "notOk" (response.ok false),
\*   "jsonThrows" (response.json() rejects), "ok" (data parsed)
pollResult(outcome, data, page, rs, cursor, ind, lastAction, t) ==
    LET h == handleSyncData(page, data, rs, lastAction, t)
        applies == outcome = "ok" /\ data.success
        caught  == outcome \in {"fetchThrows", "jsonThrows"}
                   \/ (applies /\ h.threw)
    IN  [ended      |-> IF outcome # "ok" THEN outcome
                        ELSE IF ~data.success THEN "successFalse"
                        ELSE IF h.threw THEN "patchThrows" ELSE "success",
         rows       |-> IF applies THEN h.rows ELSE rs,
         reload     |-> applies /\ h.reload,
         refresh    |-> applies /\ h.refresh,
         lastUpdate |-> IF applies /\ ~h.threw THEN data.timestamp ELSE cursor,
         indicator  |-> IF caught THEN showConnectionStatus(ind, "disconnected")
                        ELSE ind]

Outcomes == {"fetchThrows", "notOk", "jsonThrows", "ok"}

\* the continuation of poll() after `await fetch(...)` for the fetch f
pollSettles(f, outcome, data) ==
    LET res == pollResult(outcome, data, currentPage, rows, lastUpdate,
                          indicator, lastUserAction, now)
    IN  /\ ~reloaded
        /\ BagIn(f, inflight)
        /\ outcome = "ok" \/ data = NoPayload
        /\ res.refresh => refresh.stage = "idle"
        /\ inflight' = inflight (-) SetToBag({f})
        /\ rows' = res.rows
        /\ reloaded' = res.reload
        /\ refresh' = IF res.refresh THEN [refresh EXCEPT !.stage = "fetching"]
                      ELSE refresh
        /\ lastUpdate' = res.lastUpdate
        /\ indicator' = res.indicator
        /\ scheduleNext
        /\ last' = [Did("poll", 0, res.ended,
                        IF res.ended \in {"success", "patchThrows"} THEN data
                        ELSE NoPayload)
                      EXCEPT !.patched = {r \in Routes : res.rows[r] # rows[r]}]
        /\ UNCHANGED <<util, audio, currentPage, isPolling, hideTimers, cycleReq,
                       enableTimers, guardVars, now, serverVars>>

----------------------------------------------------------------------------
(* Content-only refresh: updateRoutesContent / updateStudentsContent *)

\* the table bodies a fetched page can carry: a row, or none, per route
Snapshots == [Routes -> {AbsentRow} \cup {ParsedRow(s) : s \in Status}]

\* the page fetch settles: "throws" reloads the page, "notOk" and "noTbody"
\* leave the table alone, "ok" fades the table and starts the 200 ms timer
pageFetchSettles(outcome, snap) ==
    /\ ~reloaded
    /\ refresh.stage \in {"fetching", "rendered"}
    /\ outcome \in {"throws", "notOk", "noTbody", "ok"}
    /\ IF outcome = "ok"
       THEN /\ snap \in Snapshots
            /\ currentPage = "routes" \/ snap = NoRefresh.snapshot
            /\ refresh' = [stage |-> "swapping", snapshot |-> snap,
                            opacity |-> "0.5"]
       ELSE /\ snap = NoRefresh.snapshot
            /\ refresh' = NoRefresh
    /\ reloaded' = (outcome = "throws")
    /\ last' = Did("pageFetch", 0, outcome, NoPayload)
    /\ UNCHANGED <<util, audio, currentPage, pollerVars, indicator, hideTimers, domVars,
                   guardVars, now, serverVars>>

\* the 200 ms timer: the live rows are replaced by clones of the fetched ones;
\* requests and timers started from the replaced buttons keep the old nodes
swapTimerFires ==
    /\ ~reloaded
    /\ refresh.stage = "swapping"
    /\ rows' = initializeRouteEvents(
                   [r \in Routes |-> cloneNode(refresh.snapshot[r])])
    /\ cycleReq' = [r \in Routes |->
                      IF cycleReq[r].stage = "none" THEN cycleReq[r]
                      ELSE [cycleReq[r] EXCEPT !.detached = TRUE]]
    /\ enableTimers' = {}
    /\ refresh' = NoRefresh
    /\ last' = Did("swap", 0, "", NoPayload)
    /\ UNCHANGED <<util, audio, currentPage, pollerVars, indicator, hideTimers, guardVars,
                   now, serverVars, reloaded>>

----------------------------------------------------------------------------
(* cycleRouteStatus(routeId, button) and its promise chain *)

\* cycleRouteStatus testing `button.disabled` only, not dataset.processing
cycleRouteStatus_DisabledOnly(r) ==
    /\ ~reloaded
    /\ rows[r].present
    /\ IF rows[r].disabled
       THEN /\ last' = Did("click", r, "ignored", NoPayload)
            /\ UNCHANGED <<rows, cycleReq, guardVars>>
       ELSE /\ cycleReq[r].stage = "none"
            /\ rows' = [rows EXCEPT ![r] =
                          [@ EXCEPT !.processing = TRUE, !.disabled = TRUE,
                                    !.className = AddLoading(@)]]
            /\ guardedUntil' = trackUserUpdate(guardedUntil, r, now)
            /\ lastUserAction' = now
            /\ cycleReq' = [cycleReq EXCEPT ![r] =
                              [NoReq EXCEPT !.stage = "sent"]]
            /\ last' = Did("click", r, "sent", NoPayload)
    /\ UNCHANGED <<util, audio, currentPage, pollerVars, indicator, hideTimers,
                   enableTimers, now, serverVars, refresh, reloaded>>

\* cycleRouteStatus without trackUserUpdate(routeId) and without the
\* lastUserAction write
cycleRouteStatus_NoTrack(r) ==
    /\ ~reloaded
    /\ rows[r].present
    /\ IF rows[r].disabled \/ rows[r].processing
       THEN /\ last' = Did("click", r, "ignored", NoPayload)
            /\ UNCHANGED <<rows, cycleReq, guardVars>>
       ELSE /\ cycleReq[r].stage = "none"
            /\ rows' = [rows EXCEPT ![r] =
                          [@ EXCEPT !.processing = TRUE, !.disabled = TRUE,
                                    !.className = AddLoading(@)]]
            /\ UNCHANGED guardVars
            /\ cycleReq' = [cycleReq EXCEPT ![r] =
                              [NoReq EXCEPT !.stage = "sent"]]
            /\ last' = Did("click", r, "sent", NoPayload)
    /\ UNCHANGED <<util, audio, currentPage, pollerVars, indicator, hideTimers,
                   enableTimers, now, serverVars, refresh, reloaded>>

\* cycleRouteStatus, lines 696-752: the click handler of route r's button
cycleRouteStatus(r) ==
    /\ ~reloaded
    /\ rows[r].present
    /\ IF rows[r].disabled \/ rows[r].processing
       THEN /\ last' = Did("click", r, "ignored", NoPayload)
            /\ UNCHANGED <<rows, cycleReq, guardVars>>
       ELSE /\ cycleReq[r].stage = "none"
            /\ rows' = [rows EXCEPT ![r] =
                          [@ EXCEPT !.processing = TRUE, !.disabled = TRUE,
                                    !.className = AddLoading(@)]]
            /\ guardedUntil' = trackUserUpdate(guardedUntil, r, now)
            /\ lastUserAction' = now
            /\ cycleReq' = [cycleReq EXCEPT ![r] =
                              [NoReq EXCEPT !.stage = "sent"]]
            /\ last' = Did("click", r, "sent", NoPayload)
    /\ UNCHANGED <<util, audio, currentPage, pollerVars, indicator, hideTimers,
                   enableTimers, now, serverVars, refresh, reloaded>>

\* the response handlers showing the locally computed next status instead
\* of data.status
buttonAfterResponse_LocalNext(row, success, status) ==
    LET b == [row EXCEPT !.className = RemoveLoading(@), !.disabled = FALSE]
        n == NextStatus(row.currentStatus)
    IN  IF success
        THEN [b EXCEPT !.currentStatus = n,
                       !.className = ClassOf(ColorOf(n)),
                       !.innerHTML = LabelOf(n)]
        ELSE b

\* the response handlers writing the returned status whatever data.success is
buttonAfterResponse_IgnoreSuccess(row, success, status) ==
    [row EXCEPT !.className = ClassOf(ColorOf(status)), !.disabled = FALSE,
                !.currentStatus = status, !.innerHTML = LabelOf(status)]

\* the button after the response handlers ran (lines 754-794):
\* hideLoadingState, then on success the status the server returned
buttonAfterResponse(row, success, status) ==
    LET b == [row EXCEPT !.className = RemoveLoading(@), !.disabled = FALSE] IN
    IF success
    THEN [b EXCEPT !.currentStatus = status,
                   !.className = ClassOf(ColorOf(status)),
                   !.innerHTML = LabelOf(status)]
    ELSE b

\* the POST settles: "throws" (fetch or json rejects) or "response"
cycleSettles(r, outcome) ==
    LET q == cycleReq[r] IN
    /\ ~reloaded
    /\ q.stage # "none"
    /\ outcome \in {"throws", "response"}
    /\ outcome = "response" => q.stage = "answered"
    /\ rows' = IF q.detached THEN rows
               ELSE [rows EXCEPT ![r] =
                       buttonAfterResponse(@, outcome = "response" /\ q.ok,
                                           q.status)]
    /\ enableTimers' = IF q.detached THEN enableTimers
                       ELSE enableTimers \cup {r}
    /\ cycleReq' = [cycleReq EXCEPT ![r] = NoReq]
    /\ last' = [Did("cycleSettles", r,
                    IF outcome = "response" /\ q.ok THEN "success"
                    ELSE IF outcome = "response" THEN "failure" ELSE "throws",
                    NoPayload)
                EXCEPT !.tones = IF outcome = "response" /\ q.ok
                                 THEN onRouteStatusChange(audio) ELSE 0]
    /\ UNCHANGED <<util, audio, currentPage, pollerVars, indicator, hideTimers, guardVars,
                   now, serverVars, refresh, reloaded>>

\* the 300 ms timer of the finally handler
enableTimerFires(r) ==
    /\ ~reloaded
    /\ r \in enableTimers
    /\ enableTimers' = enableTimers \ {r}
    /\ rows' = [rows EXCEPT ![r] =
                  [@ EXCEPT !.processing = FALSE, !.disabled = FALSE]]
    /\ last' = Did("enableTimer", r, "", NoPayload)
    /\ UNCHANGED <<util, audio, currentPage, pollerVars, indicator, hideTimers, cycleReq,
                   guardVars, now, serverVars, refresh, reloaded>>

----------------------------------------------------------------------------
(* The status store behind the two endpoints *)

\* a write-status: the stored status advances one step of the cycle
storeCycle(r) ==
    /\ serverTime < MaxWrites
    /\ serverTime' = serverTime + 1
    /\ serverStatus' = [serverStatus EXCEPT ![r] = NextStatus(@)]
    /\ updatedAt' = [updatedAt EXCEPT ![r] = serverTime + 1]

\* POST /routes/{id}/cycle-status reaches the store: it cycles the status and
\* answers {success: true, status}, or refuses with {success: false}
serverCycles(r, ok) ==
    /\ ~reloaded
    /\ cycleReq[r].stage = "sent"
    /\ IF ok THEN storeCycle(r) ELSE UNCHANGED serverVars
    /\ cycleReq' = [cycleReq EXCEPT ![r] =
                      [@ EXCEPT !.stage = "answered", !.ok = ok,
                                !.status = IF ok THEN NextStatus(serverStatus[r])
                                           ELSE @]]
    /\ last' = Did("serverCycles", r, IF ok THEN "success" ELSE "failure",
                   NoPayload)
    /\ UNCHANGED <<util, audio, currentPage, pollerVars, indicator, hideTimers, rows,
                   enableTimers, guardVars, now, refresh, reloaded>>

\* another device's cycle-status on route r
otherDeviceCycles(r) ==
    /\ ~reloaded
    /\ storeCycle(r)
    /\ last' = Did("otherDevice", r, "", NoPayload)
    /\ UNCHANGED <<util, audio, currentPage, pollerVars, indicator, hideTimers, domVars,
                   guardVars, now, refresh, reloaded>>

\* GET /api/sync/routes?last_update=c answered from the store: the routes
\* written since c, and the store's timestamp
syncAnswer(c) ==
    [success |-> TRUE, timestamp |-> serverTime, routes_updated |-> FALSE,
     hasRoutes |-> TRUE,
     routes |-> [r \in Routes |->
                   IF updatedAt[r] > c
                   THEN [kind |-> "delta", status |-> serverStatus[r],
                         status_color |-> ColorOf(serverStatus[r])]
                   ELSE NoDelta],
     needs_refresh |-> FALSE]

serverAnswers(f) ==
    /\ ~reloaded
    /\ BagIn(f, inflight)
    /\ ~f.answered
    /\ inflight' = (inflight (-) SetToBag({f})) (+)
           SetToBag({[f EXCEPT !.answered = TRUE, !.resp = syncAnswer(f.cursor)]})
    /\ last' = Did("serverAnswers", 0, "", NoPayload)
    /\ UNCHANGED <<util, audio, currentPage, isPolling, pollTimer, lastUpdate, timers,
                   indicator, hideTimers, domVars, guardVars, now, serverVars,
                   refresh, reloaded>>

----------------------------------------------------------------------------
(* Time *)

Tick ==
    /\ ~reloaded
    /\ now < StartTime + MaxTicks * TickMs
    /\ now' = now + TickMs
    /\ last' = Did("tick", 0, "", NoPayload)
    /\ UNCHANGED <<util, audio, currentPage, pollerVars, indicator, hideTimers, domVars,
                   guardVars, serverVars, refresh, reloaded>>

----------------------------------------------------------------------------
(* The audio system's events *)

\* the document receives event e: its listener, when still registered, runs
\* initAudio
userInteraction(e) ==
    /\ ~reloaded
    /\ audio.loaded
    /\ audio' = IF e \in audio.listeners THEN initAudio(audio, e) ELSE audio
    /\ last' = Did("userInteraction", 0,
                   IF e \in audio.listeners THEN "handled" ELSE "ignored",
                   NoPayload)
    /\ UNCHANGED <<util, currentPage, pollerVars, indicator, hideTimers, domVars,
                   guardVars, now, serverVars, refresh, reloaded>>

\* a promise of audioContext.resume() settles: resolved, the context runs and
\* the `then` callback marks the system initialised and removes the
\* listeners; rejected, nothing handles it
resumeSettles(resolved) ==
    /\ ~reloaded
    /\ audio.resuming > 0
    /\ audio' = IF resolved
                THEN [audio EXCEPT !.resuming = @ - 1,
                                   !.audioContext = "running",
                                   !.isInitialized = TRUE, !.listeners = {}]
                ELSE [audio EXCEPT !.resuming = @ - 1]
    /\ last' = Did("resumeSettles", 0,
                   IF resolved THEN "resolved" ELSE "rejected", NoPayload)
    /\ UNCHANGED <<util, currentPage, pollerVars, indicator, hideTimers, domVars,
                   guardVars, now, serverVars, refresh, reloaded>>

\* the browser suspends the running context (tab in the background, call)
contextSuspends ==
    /\ ~reloaded
    /\ audio.audioContext = "running"
    /\ audio' = [audio EXCEPT !.audioContext = "suspended"]
    /\ last' = Did("contextSuspends", 0, "", NoPayload)
    /\ UNCHANGED <<util, currentPage, pollerVars, indicator, hideTimers, domVars,
                   guardVars, now, serverVars, refresh, reloaded>>

\* window.audioSystem.onBulkOperation()
onBulkOperation ==
    /\ ~reloaded
    /\ audio.loaded
    /\ last' = [Did("onBulkOperation", 0, "", NoPayload)
                EXCEPT !.tones = notify(audio)]
    /\ UNCHANGED <<util, audio, currentPage, pollerVars, indicator, hideTimers,
                   domVars, guardVars, now, serverVars, refresh, reloaded>>

\* window.testAudio(): plays when canPlayAudio() and returns whether it did
testAudio ==
    /\ ~reloaded
    /\ audio.loaded
    /\ last' = [Did("testAudio", 0,
                    IF canPlayAudio(audio) THEN "true" ELSE "false", NoPayload)
                EXCEPT !.tones = notify(audio)]
    /\ UNCHANGED <<util, audio, currentPage, pollerVars, indicator, hideTimers,
                   domVars, guardVars, now, serverVars, refresh, reloaded>>

\* another page of the same browser runs main.js line 731: localStorage is
\* shared, so this page's isUserAction() reads the timestamp written there
userActsElsewhere ==
    /\ ~reloaded
    /\ lastUserAction # now
    /\ lastUserAction' = now
    /\ last' = Did("userActsElsewhere", 0, "", NoPayload)
    /\ UNCHANGED <<util, audio, currentPage, pollerVars, indicator, hideTimers,
                   domVars, guardedUntil, now, serverVars, refresh, reloaded>>

\* the routes page as the server renders it from the status store
RenderedPage == [r \in Routes |-> ParsedRow(serverStatus[r])]

\* GET of the page reaches the server: the HTML of the response is rendered
\* from the store as it is now
serverRendersPage ==
    /\ ~reloaded
    /\ refresh.stage = "fetching"
    /\ refresh' = [refresh EXCEPT !.stage = "rendered",
                                  !.snapshot = RenderedPage]
    /\ last' = Did("serverRendersPage", 0, "", NoPayload)
    /\ UNCHANGED <<util, audio, currentPage, pollerVars, indicator, hideTimers,
                   domVars, guardVars, now, serverVars, reloaded>>

----------------------------------------------------------------------------
(* The utility wrappers' events *)

\* a timer whose time has come has not run yet: it runs before anything else
TimerDue ==
    \/ \E tm \in util.debounce.timers : tm.due <= util.clock
    \/ \E due \in util.throttle.timers : due <= util.clock

\* time passes
clockTick ==
    /\ ~TimerDue
    /\ util.clock < MaxClock
    /\ util' = [util EXCEPT !.clock = @ + 1]
    /\ last' = Did("clockTick", 0, "", NoPayload)
    /\ UNCHANGED <<audio, currentPage, pollerVars, indicator, hideTimers,
                   domVars, guardVars, now, serverVars, refresh, reloaded>>

\* the debounced function is called with argument a
debounceCall(a) ==
    /\ ~TimerDue
    /\ util' = [util EXCEPT
                  !.debounce = executedFunction(@, a, util.clock),
                  !.lastCall = util.clock, !.lastArg = a,
                  !.burst = IF @ = 0 THEN 1 ELSE 2]
    /\ last' = Did("debounceCall", a, "", NoPayload)
    /\ UNCHANGED <<audio, currentPage, pollerVars, indicator, hideTimers,
                   domVars, guardVars, now, serverVars, refresh, reloaded>>

\* the debounce timer tm fires: later() runs func with the timer's args
debounceTimerFires(tm) ==
    /\ tm \in util.debounce.timers
    /\ tm.due <= util.clock
    /\ util' = [util EXCEPT !.debounce = later(@, tm),
                            !.lastRun = util.clock, !.burst = 0,
                            !.ranFor = util.burst]
    /\ last' = Did("later", tm.arg, "func", NoPayload)
    /\ UNCHANGED <<audio, currentPage, pollerVars, indicator, hideTimers,
                   domVars, guardVars, now, serverVars, refresh, reloaded>>

\* the throttled function is called
throttleCall ==
    /\ ~TimerDue
    /\ util' = [util EXCEPT
                  !.throttle = throttled(@, util.clock),
                  !.lastInvoke = IF util.throttle.inThrottle THEN @
                                 ELSE util.clock]
    /\ last' = Did("throttleCall", 0,
                   IF util.throttle.inThrottle THEN "dropped" ELSE "func",
                   NoPayload)
    /\ UNCHANGED <<audio, currentPage, pollerVars, indicator, hideTimers,
                   domVars, guardVars, now, serverVars, refresh, reloaded>>

\* the throttle timer fires: inThrottle = false
throttleTimerFires(due) ==
    /\ due \in util.throttle.timers
    /\ due <= util.clock
    /\ util' = [util EXCEPT !.throttle.inThrottle = FALSE,
                            !.throttle.timers = @ \ {due}]
    /\ last' = Did("throttleTimer", 0, "", NoPayload)
    /\ UNCHANGED <<audio, currentPage, pollerVars, indicator, hideTimers,
                   domVars, guardVars, now, serverVars, refresh, reloaded>>

----------------------------------------------------------------------------
(* Specifications *)

\* what /api/sync/{page} is taken to answer: any payload on the routes page;
\* on the other pages, whose handler never reads them, no route fields
PlainPayloads == {d \in Payloads : ~d.hasRoutes /\ ~d.routes_updated}

PayloadsFor(page) == IF page = "routes" THEN Payloads ELSE PlainPayloads

\* payloads that start no content refresh
NoRefreshPayloads == {d \in Payloads : ~d.needs_refresh}

\* payloads that neither reload the page nor start a content refresh
PatchPayloads == {d \in NoRefreshPayloads : ~d.routes_updated}

PollerNext ==
    \/ startPolling
    \/ stopPolling
    \/ \E mine \in BOOLEAN : pollTimerFires(mine)
    \/ \E f \in BagToSet(inflight), o \in Outcomes \ {"ok"} :
          pollSettles(f, o, NoPayload)
    \/ \E f \in BagToSet(inflight),
          d \in PayloadsFor(currentPage) \cap NoRefreshPayloads :
          pollSettles(f, "ok", d)
    \/ hideTimerFires

ClickNext ==
    \/ \E r \in Routes : cycleRouteStatus(r)
    \/ \E r \in Routes, ok \in BOOLEAN : serverCycles(r, ok)
    \/ \E r \in Routes, o \in {"throws", "response"} : cycleSettles(r, o)
    \/ \E r \in Routes : enableTimerFires(r)

\* Spec: one tab on any page, its poller started and stopped at will, against
\* a server that may answer a sync request with any payload that starts no
\* content refresh; the local user does not click.
Next == PollerNext

Spec == Init /\ [][Next]_vars

\* FairSpec: Spec in a browser that runs every due timer callback and in which
\* every fetch settles (with a response, or with a rejection).
PollFairness ==
    /\ WF_vars(\E mine \in BOOLEAN : pollTimerFires(mine))
    /\ WF_vars(\E f \in BagToSet(inflight), o \in Outcomes,
                  d \in Payloads \cup {NoPayload} : pollSettles(f, o, d))

FairSpec == Spec /\ PollFairness

\* PatchSpec: updateRouteData on its own, over a table of NumPatchRoutes
\* routes: each row is absent, rendered, or rendered with a click in flight;
\* any routes object is applied to the table, and rows disappear from it.
PatchRoutes == 1..NumPatchRoutes
PatchOrder  == [i \in 1..NumPatchRoutes |-> i]

ClickedRow(s) ==
    [RenderRow(s) EXCEPT !.processing = TRUE, !.disabled = TRUE,
                         !.className = AddLoading(@)]

PatchRows ==
    {AbsentRow} \cup {RenderRow(s) : s \in Status} \cup {ClickedRow("not_present")}

PatchInit ==
    /\ \E rs \in [PatchRoutes -> PatchRows] :
          InitWith("routes", rs, NoAudioSystem)
    /\ util = NoUtil

\* updateRouteData(routes) called on the table as it is
patchDeltas(routes) ==
    LET u == updateRouteDataFrom(rows, routes, PatchOrder, 1) IN
    /\ rows' = u.rows
    /\ last' = [op |-> "updateRouteData", arg |-> 0,
                outcome |-> IF u.threw THEN "threw" ELSE "returned",
                data |-> [NoPayload EXCEPT !.success = TRUE, !.hasRoutes = TRUE,
                                           !.routes = routes],
                patched |-> {r \in PatchRoutes : u.rows[r] # rows[r]},
                tones |-> 0]
    /\ UNCHANGED <<util, audio, currentPage, pollerVars, indicator, hideTimers, cycleReq,
                   enableTimers, guardVars, now, serverVars, refresh, reloaded>>

\* the <tr> of route r leaves the document
rowDisappears(r) ==
    /\ rows[r].present
    /\ rows' = [rows EXCEPT ![r] = AbsentRow]
    /\ last' = Did("rowDisappears", r, "", NoPayload)
    /\ UNCHANGED <<util, audio, currentPage, pollerVars, indicator, hideTimers, cycleReq,
                   enableTimers, guardVars, now, serverVars, refresh, reloaded>>

PatchNext ==
    \/ \E routes \in [PatchRoutes -> DeltaOpt] : patchDeltas(routes)
    \/ \E r \in PatchRoutes : rowDisappears(r)

PatchSpec == PatchInit /\ [][PatchNext]_vars

\* RefreshSpec: as Spec, with payloads that start a content-only refresh and
\* the refresh running to its end.
RefreshNext ==
    \/ startPolling
    \/ stopPolling
    \/ \E mine \in BOOLEAN : pollTimerFires(mine)
    \/ \E f \in BagToSet(inflight), d \in PayloadsFor(currentPage) :
          pollSettles(f, "ok", d)
    \/ \E o \in {"throws", "notOk", "noTbody"} :
          pageFetchSettles(o, NoRefresh.snapshot)
    \/ \E s \in Snapshots : pageFetchSettles("ok", s)
    \/ swapTimerFires

RefreshSpec == Init /\ [][RefreshNext]_vars

\* UserActionSpec: RefreshSpec with the clock advancing and the user acting
\* (on another page of the same browser) at any time.
UserActionNext ==
    \/ RefreshNext
    \/ Tick
    \/ userActsElsewhere

UserActionSpec == Init /\ [][UserActionNext]_vars

\* GuardSpec: the Transport Check-in page with its poller running, the local
\* user clicking status buttons while time passes; sync responses are any
\* payload that patches rows in place.
GuardInit == Init /\ currentPage = "routes"

GuardNext ==
    \/ \E mine \in BOOLEAN : pollTimerFires(mine)
    \/ \E f \in BagToSet(inflight), d \in PatchPayloads : pollSettles(f, "ok", d)
    \/ ClickNext
    \/ Tick

GuardSpec == GuardInit /\ [][GuardNext]_vars

\* sync payloads that only ask for a content refresh of the routes page
RefreshTriggers ==
    {d \in Payloads : /\ d.success /\ d.needs_refresh /\ ~d.routes_updated
                      /\ d.hasRoutes /\ d.routes = NoRoutes
                      /\ d.timestamp # Undefined}

\* RaceSpec: the Transport Check-in page whose user clicks status buttons
\* while sync responses start content refreshes; the page the refresh fetches
\* is rendered from the status store when its request reaches the server.
RaceNext ==
    \/ \E mine \in BOOLEAN : pollTimerFires(mine)
    \/ \E f \in BagToSet(inflight), d \in RefreshTriggers :
          pollSettles(f, "ok", d)
    \/ serverRendersPage
    \/ refresh.stage = "rendered" /\ pageFetchSettles("ok", refresh.snapshot)
    \/ swapTimerFires
    \/ ClickNext

RaceSpec == GuardInit /\ [][RaceNext]_vars

\* SyncSpec: the Transport Check-in page polling a status store that answers
\* each sync request with the routes written since the request's cursor, while
\* this device and other devices cycle statuses.  Every request is answered and
\* every response and timer is eventually handled.
\* writes the store can still take beyond those already on their way to it
WritesLeft ==
    MaxWrites - serverTime - Cardinality({r \in Routes : cycleReq[r].stage = "sent"})

SyncNext ==
    \/ \E mine \in BOOLEAN : pollTimerFires(mine)
    \/ \E f \in BagToSet(inflight) : serverAnswers(f)
    \/ \E f \in BagToSet(inflight) : f.answered /\ pollSettles(f, "ok", f.resp)
    \/ \E r \in Routes : WritesLeft > 0 /\ cycleRouteStatus(r)
    \/ \E r \in Routes : serverCycles(r, TRUE)
    \/ \E r \in Routes : cycleSettles(r, "response")
    \/ \E r \in Routes : enableTimerFires(r)
    \/ \E r \in Routes : WritesLeft > 0 /\ otherDeviceCycles(r)

SyncFairness ==
    /\ WF_vars(\E mine \in BOOLEAN : pollTimerFires(mine))
    /\ WF_vars(\E f \in BagToSet(inflight) : serverAnswers(f))
    /\ WF_vars(\E f \in BagToSet(inflight) :
                  f.answered /\ pollSettles(f, "ok", f.resp))
    /\ WF_vars(\E r \in Routes : serverCycles(r, TRUE))
    /\ WF_vars(\E r \in Routes : cycleSettles(r, "response"))
    /\ WF_vars(\E r \in Routes : enableTimerFires(r))

SyncSpec == GuardInit /\ [][SyncNext]_vars /\ SyncFairness

\* AudioSpec: the Transport Check-in page of SyncSpec (no fairness) with
\* audio.js loaded, on any account and browser: the user interacts with the
\* document, resume() promises settle, the browser may suspend the context,
\* and the notification entry points are called.
AudioInit ==
    /\ util = NoUtil
    /\ \E path \in {q \in Paths : "/routes" \in q},
       serverFlag \in ServerFlags, markers \in BOOLEAN,
       hasAdminElements \in BOOLEAN, supported \in BOOLEAN,
       ctorThrows \in BOOLEAN, state \in ContextStates :
        InitWith(getCurrentPage(path),
                 [r \in Routes |-> RenderRow("not_present")],
                 AudioNotificationSystem(
                     detectClassAccount(serverFlag, markers, hasAdminElements,
                                        path),
                     supported, ctorThrows, state))

AudioNext ==
    \/ SyncNext
    \/ \E e \in InteractionEvents : userInteraction(e)
    \/ \E resolved \in BOOLEAN : resumeSettles(resolved)
    \/ contextSuspends
    \/ onBulkOperation
    \/ testAudio

AudioSpec == AudioInit /\ [][AudioNext]_vars

\* UtilSpec: a debounced and a throttled function, of any wait and limit,
\* called at any instants; timers run at the instant they are due.
UtilInit ==
    /\ InitWith("general", [r \in Routes |-> AbsentRow], NoAudioSystem)
    /\ \E wait \in 1..MaxWait, limit \in 1..MaxWait :
          util = UtilWith(wait, limit)

UtilNext ==
    \/ clockTick
    \/ \E a \in Args : debounceCall(a)
    \/ \E tm \in util.debounce.timers : debounceTimerFires(tm)
    \/ throttleCall
    \/ \E due \in util.throttle.timers : throttleTimerFires(due)

UtilSpec == UtilInit /\ [][UtilNext]_vars

----------------------------------------------------------------------------
(* Properties *)

\* the delta a handled sync response carried for route r
DeltaFor(r) == last.data.routes[r]

\* the row of r shows what the status button was last told: its colour class
\* is that of its currentStatus
Consistent(row) == row.present /\ row.className[3] = ColorOf(row.currentStatus)

\* C1 (GuardSpec): guard suppression.  A sync response handled while route r
\* is guarded (the local user changed r less than GUARD_WINDOW ago) does not
\* change r's status button: its class, label and currentStatus stay.
C1_GuardSuppression ==
    \A r \in Routes :
        (last.op = "poll" /\ DeltaFor(r).kind = "delta" /\ isGuarded(r))
            => r \notin last.patched

\* C2 (Spec): the sync cursor never decreases, whatever timestamps the
\* responses carry (lower than the cursor, or none).
C2_CursorMonotone == [][lastUpdate' # Undefined /\ lastUpdate' >= lastUpdate]_vars

\* C3 (Spec): at any instant at most one sync fetch is in flight and at most
\* one next-poll timer is pending.
C3_NoOverlap == InFlight <= 1 /\ timers <= 1

\* C4 (GuardSpec): self-healing.  Once the guard of a locally changed route r
\* has run out, a handled sync response with a delta for r (and no null entry)
\* is applied: the button takes the delta's colour class and, when the
\* delta's colour is that of its status and the button was consistent, the
\* delta's status and label.
C4_SelfHealing ==
    [][\A r \in Routes :
         LET d == last'.data.routes[r] IN
         (/\ last'.op = "poll" /\ last'.outcome = "success"
          /\ d.kind = "delta"
          /\ guardedUntil[r] # 0 /\ ~isGuarded(r)
          /\ rows[r].present)
         => /\ rows'[r].className = ClassOf(d.status_color)
            /\ (d.status_color = ColorOf(d.status) /\ Consistent(rows[r]))
                 => /\ rows'[r].currentStatus = d.status
                    /\ rows'[r].innerHTML = LabelOf(d.status)]_vars

\* C4 witness: the guard of route 1 has run out and the response just handled
\* changed its button to the delta's status
C4_Witness ==
    /\ last.op = "poll" /\ 1 \in last.patched
    /\ guardedUntil[1] # 0 /\ ~isGuarded(1)
    /\ rows[1].currentStatus = DeltaFor(1).status
    /\ DeltaFor(1).status_color = ColorOf(DeltaFor(1).status)

\* C5 (SyncSpec): eventual convergence.  With a store that answers with the
\* changes since the request's cursor, every rendered row eventually shows,
\* and keeps showing, the status the store holds for its route.
C5_Convergence ==
    <>[](\A r \in Routes : rows[r].present => rows[r].currentStatus = serverStatus[r])

\* C6 (Spec): startPolling() while already polling is a no-op: it starts no
\* fetch and no timer and leaves the poller and the indicator as they are.
C6_StartIdempotent ==
    [][(last'.op = "startPolling" /\ isPolling)
         => UNCHANGED <<pollerVars, indicator, hideTimers>>]_vars

\* C6 witness: a second startPolling() right after the constructor's: still
\* one fetch in flight and no timer
C6_Witness ==
    /\ last.op = "startPolling" /\ last.outcome = "noop"
    /\ isPolling /\ InFlight = 1 /\ timers = 0

\* C7 (Spec): stopPolling() leaves no scheduled poll pending and is
\* idempotent; while the poller is stopped only startPolling() issues a sync
\* fetch, and a response handled while stopped schedules no next poll.
C7_StopContract ==
    [][/\ last'.op = "stopPolling" => ~isPolling' /\ timers' = 0
       /\ (last'.op = "stopPolling" /\ ~isPolling /\ pollTimer = Null)
            => UNCHANGED <<pollerVars, indicator, hideTimers>>
       /\ (~isPolling /\ InFlight' > InFlight) => last'.op = "startPolling"
       /\ (~isPolling /\ last'.op = "poll") => timers' = timers]_vars

\* C8 (Spec): a sync response handled while the poller is stopped changes
\* neither the rows nor the cursor and reloads nothing.
C8_StoppedResponseDropped ==
    [][(last'.op = "poll" /\ ~isPolling)
         => /\ rows' = rows /\ lastUpdate' = lastUpdate /\ reloaded' = reloaded]_vars

FailedTick == {"fetchThrows", "jsonThrows", "notOk", "successFalse"}

\* C9 (Spec): a tick that ends in a thrown fetch, a non-OK response or a
\* payload whose success flag is false leaves the cursor and the page alone.
C9_FailedTickNoEffect ==
    [][(last'.op = "poll" /\ last'.outcome \in FailedTick)
         => /\ lastUpdate' = lastUpdate /\ rows' = rows
            /\ reloaded' = reloaded /\ refresh' = refresh]_vars

\* C9 witness: a failed tick after the cursor had advanced
C9_Witness ==
    last.op = "poll" /\ last.outcome = "successFalse" /\ lastUpdate = MaxTimestamp

\* C10 (Spec): every failed tick shows the disconnected indicator.
C10_DisconnectedOnFailure ==
    [][(last'.op = "poll" /\ last'.outcome \in FailedTick)
         => indicator'.state = "disconnected" /\ indicator'.display = "block"]_vars

\* C11 (FairSpec): the polling loop is never fatal.  While the poller runs,
\* the continuation of every tick, however the tick ended, schedules one next
\* poll; and a poller that is not stopped (and whose page is not reloaded)
\* issues a fetch from a timer again and again.
C11_NeverFatal ==
    /\ [][(last'.op = "poll" /\ isPolling)
            => (timers' = timers + 1 /\ pollTimer' = "pending")]_vars
    /\ []<>(\/ ~isPolling
            \/ reloaded
            \/ (last.op = "pollTimer" /\ last.outcome = "fetch"))

\* C11 witness: a next fetch issued from the timer after a tick that threw
C11_Witness ==
    /\ last.op = "pollTimer" /\ last.outcome = "fetch"
    /\ isPolling /\ indicator.state = "disconnected"

\* C12 (Spec): a success payload without a timestamp field leaves the cursor
\* at its previous value.
C12_MissingTimestampKeepsCursor ==
    [][(/\ last'.op = "poll" /\ last'.outcome = "success"
        /\ last'.data.timestamp = Undefined)
         => lastUpdate' = lastUpdate]_vars

\* a handled success payload with no routes field and neither flag set
BarePayload(d) ==
    d.success /\ ~d.hasRoutes /\ ~d.routes_updated /\ ~d.needs_refresh

\* C13 (Spec): a success payload with no routes field and no flag is a no-op
\* for the view: no row changes, nothing is refreshed or reloaded, and no
\* exception reaches poll()'s catch (the tick ends as a success, the
\* indicator stays as it was).
C13_BarePayloadNoOp ==
    [][(last'.op = "poll" /\ BarePayload(last'.data))
         => /\ last'.outcome = "success"
            /\ rows' = rows /\ refresh' = refresh /\ reloaded' = reloaded
            /\ indicator' = indicator]_vars

\* C13 witness: such a payload was handled on the routes page, rows rendered
C13_Witness ==
    /\ last.op = "poll" /\ BarePayload(last.data)
    /\ currentPage = "routes" /\ rows[1].present /\ ~reloaded

\* C14 (Spec): whenever a success payload of an OK response was handed to the
\* view patcher, the cursor is the payload's timestamp afterwards, whether
\* patching returned or threw.
C14_CursorBeforePatch ==
    [][(last'.op = "poll" /\ last'.outcome \in {"success", "patchThrows"})
         => lastUpdate' = last'.data.timestamp]_vars

\* C15 (GuardSpec): never patch a row mid-write.  While the cycle-status
\* request started from route r's button is in flight (button marked
\* processing), a handled sync response with a delta for r leaves r's row as
\* it is.
C15_NoPatchMidWrite ==
    [][\A r \in Routes :
         (/\ last'.op = "poll" /\ last'.data.routes[r].kind = "delta"
          /\ cycleReq[r].stage # "none" /\ rows[r].processing)
         => rows'[r] = rows[r]]_vars

\* C16 (GuardSpec): applying a status delta is idempotent.  Right after a
\* sync response applied its delta for r, applying the same delta once more
\* changes nothing: the comparison of classes finds them equal, and class,
\* label and currentStatus stay what the first application made them.
C16_DeltaIdempotent ==
    \A r \in Routes :
        (/\ last.op = "poll" /\ last.outcome = "success"
         /\ DeltaFor(r).kind = "delta" /\ rows[r].present)
        => /\ rows[r].className = ClassOf(DeltaFor(r).status_color)
           /\ PatchRow(rows[r], DeltaFor(r)) = rows[r]
           /\ updateRouteData(rows, last.data.routes).rows = rows

\* C16 witness: the response just handled changed route 1's button, which
\* carried the loading class of a click in flight
C16_Witness ==
    /\ last.op = "poll" /\ last.outcome = "success" /\ 1 \in last.patched
    /\ cycleReq[1].stage # "none"
    /\ rows[1].currentStatus = DeltaFor(1).status

\* the cycle not_present -> arrived -> ready -> not_present, as a table
CycleSuccessor ==
    [s \in Status |-> IF s = "not_present" THEN "arrived"
                      ELSE IF s = "arrived" THEN "ready" ELSE "not_present"]

\* C17 (SyncSpec): cycle law.  Every change of a stored status is one step
\* of the cycle not_present -> arrived -> ready -> not_present; the next
\* status cycleRouteStatus computes is that step for each of the three
\* statuses, and three steps lead back to the starting status.
C17_CycleLaw ==
    [][/\ \A r \in Routes :
            serverStatus'[r] # serverStatus[r]
                => serverStatus'[r] = CycleSuccessor[serverStatus[r]]
       /\ \A s \in Status :
            /\ NextStatus(s) = CycleSuccessor[s]
            /\ NextStatus(s) # s /\ NextStatus(NextStatus(s)) # s
            /\ NextStatus(NextStatus(NextStatus(s))) = s]_vars

\* C17 witness: three cycle-status steps on route 1 brought it back to
\* not_present
C17_Witness ==
    serverTime = 3 /\ updatedAt[1] = 3 /\ serverStatus[1] = "not_present"

\* C18 (SyncSpec): guards are per device.  On a device whose user never
\* changed route r (no guard entry for r, no lastUserAction), a handled sync
\* response carrying r's status, written by another device, is applied: the
\* row shows that status afterwards, however recent the other device's write.
C18_GuardPerDevice ==
    [][\A r \in Routes :
         LET d == last'.data.routes[r] IN
         (/\ last'.op = "poll" /\ last'.outcome = "success"
          /\ d.kind = "delta"
          /\ guardedUntil[r] = 0 /\ lastUserAction = 0
          /\ rows[r].present)
         => rows'[r] = RenderRow(d.status)]_vars

\* C18 witness: another device moved route 1 to arrived, this device never
\* touched it, and the response just handled changed its row to arrived
C18_Witness ==
    /\ last.op = "poll" /\ 1 \in last.patched
    /\ guardedUntil[1] = 0 /\ lastUserAction = 0
    /\ serverStatus[1] = "arrived" /\ rows[1] = RenderRow("arrived")

\* C19 (RefreshSpec): on the routes page a success payload with
\* routes_updated set reloads the page and, on that tick, neither patches a
\* row nor starts a content-only refresh, whatever else it carries.
C19_RoutesUpdatedReloads ==
    [][(/\ last'.op = "poll" /\ last'.outcome \in {"success", "patchThrows"}
        /\ currentPage = "routes" /\ last'.data.routes_updated)
         => /\ last'.outcome = "success"
            /\ reloaded'
            /\ rows' = rows /\ refresh' = refresh]_vars

\* C19 witness: the page was reloaded by a payload that also set
\* needs_refresh and carried a delta differing from route 1's row
C19_Witness ==
    /\ reloaded /\ last.op = "poll" /\ last.data.routes_updated
    /\ last.data.needs_refresh /\ DeltaFor(1).kind = "delta"
    /\ rows[1].present /\ rows[1].className # ClassOf(DeltaFor(1).status_color)

\* C20 (RefreshSpec): a success payload with needs_refresh set (and
\* routes_updated not set), handled on the routes or the students page while
\* no refresh is running, starts the content-only refresh of the table body,
\* whether or not it carries a routes field.
C20_NeedsRefreshRefreshes ==
    [][(/\ last'.op = "poll" /\ last'.outcome = "success"
        /\ currentPage \in {"routes", "students"}
        /\ last'.data.needs_refresh /\ ~last'.data.routes_updated
        /\ refresh.stage = "idle")
         => refresh'.stage = "fetching"]_vars

\* C21 (Spec): once the disconnected indicator is shown it stays visible
\* until the next successful poll: no other step, in particular no auto-hide
\* timer of an earlier connected state, hides it.
C21_DisconnectedPersists ==
    [][(/\ indicator.state = "disconnected" /\ indicator.display = "block"
        /\ ~(last'.op = "poll" /\ last'.outcome = "success"))
         => indicator'.display = "block"]_vars

\* C22 (Spec): the indicator follows the poller's signal: a successful poll
\* handled while the indicator is in the disconnected state moves it to the
\* connected state.
C22_SuccessShowsConnected ==
    [][(/\ last'.op = "poll" /\ last'.outcome = "success"
        /\ indicator.state = "disconnected")
         => indicator'.state = "connected"]_vars

\* C23 (RefreshSpec): when the patcher does not find the row of a delta, or
\* the content refresh does not find the table body in the live or the
\* fetched document, the page is reloaded.
C23_MissingDomReloads ==
    [][/\ (last'.op = "pageFetch" /\ last'.outcome = "noTbody") => reloaded'
       /\ \A r \in Routes :
            (/\ last'.op = "poll" /\ last'.outcome = "success"
             /\ currentPage = "routes"
             /\ last'.data.routes[r].kind = "delta" /\ ~rows[r].present)
            => reloaded']_vars

\* C24 (PatchSpec): a delta for a route whose row is not in the document is
\* skipped without error, and the deltas of the other routes of the same
\* routes object are applied: when no entry for a rendered row is null,
\* updateRouteData returns, every rendered row with a delta is patched with
\* it and every other row is left as it was.
C24_MissingRowSkipped ==
    [][last'.op = "updateRouteData" =>
         LET routes == last'.data.routes IN
         (\A r \in PatchRoutes : rows[r].present => routes[r].kind # "null")
         => /\ last'.outcome = "returned"
            /\ \A r \in PatchRoutes :
                 rows'[r] = IF rows[r].present /\ routes[r].kind = "delta"
                            THEN PatchRow(rows[r], routes[r])
                            ELSE rows[r]]_vars

\* C24 witness: route 1 has a delta and no row; route 2, after it in the
\* same routes object, was changed to ready
C24_Witness ==
    /\ last.op = "updateRouteData" /\ last.outcome = "returned"
    /\ ~rows[1].present /\ last.data.routes[1].kind = "delta"
    /\ 2 \in last.patched /\ rows[2].currentStatus = "ready"

\* C25: polling runs only on the routes page. On every other page the
\* constructor leaves the updater idle: no sync fetch is on the wire and no
\* timer (poll or indicator) is scheduled. Whatever page an instance polls on,
\* each request it has sent is for its own page.
C25_PollsOnlyOnRoutes ==
    /\ \A path \in Paths :
          syncEnabled(getCurrentPage(path)) <=> "/routes" \in path
    /\ (last.op = "construct" /\ currentPage # "routes") =>
          /\ ~isPolling
          /\ InFlight = 0
          /\ pollTimer = Null
          /\ timers = 0
          /\ hideTimers = 0
    /\ \A f \in BagToSet(inflight) : f.page = currentPage

C25_Witness ==
    /\ last.op = "construct"
    /\ currentPage = "students"
    /\ InFlight = 0
    /\ timers = 0

\* C26: bounded propagation. A status change written by another device is
\* shown here within 2 seconds when requests succeed: when the write lands
\* while this device waits between two polls (timer pending, nothing on the
\* wire) and its row is now stale, the wait that remains before the next
\* request, up to pollInterval, fits within the 2 seconds.
C26_BoundedPropagation ==
    \A r \in Routes :
        ( /\ last.op = "otherDevice"
          /\ last.arg = r
          /\ isPolling
          /\ pollTimer = "pending"
          /\ InFlight = 0
          /\ rows[r].currentStatus # serverStatus[r] )
        => pollInterval <= PROPAGATION_MS

\* C27: on a device that can play audio (class account, initialised, context
\* running), a sync response that changes a route's row to ready plays the
\* chime: the chime is not limited to the device's own clicks.
C27_SyncReadyChimes ==
    [][\A r \in Routes :
          ( /\ last'.op = "poll"
            /\ r \in last'.patched
            /\ rows[r].currentStatus # "ready"
            /\ rows'[r].currentStatus = "ready"
            /\ canPlayAudio(audio') )
          => last'.tones > 0]_vars

\* C28: the chime is for status-became-ready only. On a device that can play
\* audio, a successful local cycle-status plays the chord once when the status
\* it resulted in is ready, and plays nothing when it is arrived or
\* not_present.
C28_ChimeOnlyOnReady ==
    [][\A r \in Routes :
          ( /\ last'.op = "cycleSettles"
            /\ last'.arg = r
            /\ last'.outcome = "success"
            /\ canPlayAudio(audio) )
          => last'.tones = IF cycleReq[r].status = "ready"
                           THEN Len(chordNotes) ELSE 0]_vars

\* C29: admin accounts remain silent. A tone is played only on a class
\* account with audio support, an initialised system and a running context;
\* when isClassAccount is false no call of onRouteStatusChange,
\* onBulkOperation or testAudio plays a tone.
C29_AdminSilent ==
    /\ last.tones > 0 =>
          /\ audio.isClassAccount
          /\ audio.isSupported
          /\ audio.isInitialized
          /\ audio.audioContext = "running"
    /\ ~audio.isClassAccount => last.tones = 0

C29_Witness ==
    /\ audio.loaded
    /\ ~audio.isClassAccount
    /\ last.op = "cycleSettles"
    /\ last.outcome = "success"
    /\ rows[last.arg].currentStatus = "ready"
    /\ last.tones = 0

\* C30: audio initialises on the first user interaction. isInitialized is
\* false while no interaction has been handled; it becomes true only by a
\* handled interaction that finds the context running or by the completion of
\* the resume() a handled interaction started on a suspended context, and
\* then it does become true; an interaction on a suspended context leaves it
\* as it is until the resume completes; no tone is created while it is false.
C30_InitOnFirstInteraction ==
    [][/\ audio.listeners = InteractionEvents => ~audio.isInitialized
       /\ (~audio.isInitialized /\ audio'.isInitialized) =>
             \/ /\ last'.op = "userInteraction"
                /\ last'.outcome = "handled"
                /\ audio.audioContext = "running"
             \/ /\ last'.op = "resumeSettles"
                /\ last'.outcome = "resolved"
                /\ audio.listeners # InteractionEvents
       /\ ( /\ last'.op = "userInteraction"
            /\ last'.outcome = "handled"
            /\ audio.audioContext = "running" ) => audio'.isInitialized
       /\ ( /\ last'.op = "userInteraction"
            /\ last'.outcome = "handled"
            /\ audio.audioContext = "suspended" ) =>
             /\ audio'.isInitialized = audio.isInitialized
             /\ audio'.resuming = audio.resuming + 1
       /\ (last'.op = "resumeSettles" /\ last'.outcome = "resolved") =>
             audio'.isInitialized
       /\ last'.tones > 0 => audio.isInitialized]_vars

C30_Witness ==
    /\ last.op = "resumeSettles"
    /\ last.outcome = "resolved"
    /\ audio.isClassAccount
    /\ audio.isInitialized
    /\ audio.audioContext = "running"

\* C31: the guard is marked at the click. The step that sends the
\* cycle-status request of route r is the step that sets r's guard entry to
\* now + GUARD_WINDOW and lastUserAction to now; so while a request of r is
\* on the wire or answered, and when its response is handled, both marks are
\* already there.
C31_MarkedAtClick ==
    [][\A r \in Routes :
          /\ (last'.op = "click" /\ last'.arg = r /\ last'.outcome = "sent") =>
                /\ cycleReq[r].stage = "none"
                /\ cycleReq'[r].stage = "sent"
                /\ guardedUntil'[r] = now + GUARD_WINDOW
                /\ lastUserAction' = now
          /\ cycleReq[r].stage # "none" =>
                /\ guardedUntil[r] >= StartTime + GUARD_WINDOW
                /\ lastUserAction >= StartTime
                /\ guardedUntil'[r] >= guardedUntil[r]
                /\ lastUserAction' >= lastUserAction]_vars

C31_Witness ==
    /\ last.op = "click"
    /\ last.outcome = "sent"
    /\ now > StartTime
    /\ cycleReq[last.arg].stage = "sent"
    /\ guardedUntil[last.arg] = now + GUARD_WINDOW
    /\ lastUserAction = now

\* the button of route r is between an accepted click and the 300 ms timer
\* that follows the settlement of its request
Busy(r) == cycleReq[r].stage # "none" \/ r \in enableTimers

\* C32: per status button at most one cycle-status request is in flight.
\* From an accepted click until the 300 ms timer after its request settled
\* the button stays marked as processing, and every click on it is ignored:
\* no request is sent, no guard entry and no lastUserAction is written; this
\* also in the 300 ms in which the button is no longer disabled.
C32_OneRequestPerButton ==
    [][\A r \in Routes :
          /\ Busy(r) => rows[r].processing
          /\ (last'.op = "click" /\ last'.arg = r /\ Busy(r)) =>
                /\ last'.outcome = "ignored"
                /\ UNCHANGED <<rows, cycleReq, enableTimers, guardVars,
                               serverVars>>
          /\ (last'.op = "click" /\ last'.arg = r /\ last'.outcome = "sent") =>
                ~Busy(r)]_vars

C32_Witness ==
    /\ last.op = "click"
    /\ last.outcome = "ignored"
    /\ last.arg \in enableTimers
    /\ cycleReq[last.arg].stage = "none"
    /\ ~rows[last.arg].disabled
    /\ rows[last.arg].processing

\* C33: a failed cycle-status leaves the button as it was. The accepted
\* click changes neither currentStatus nor the label nor the status class (it
\* adds `loading`); the handling of a response with success false, or of a
\* fetch or parse that throws, changes none of them either (it removes
\* `loading`), keeps the guard entry and lastUserAction as the click set them,
\* and starts the 300 ms timer whose firing makes the button clickable again.
C33_FailureKeepsButton ==
    [][\A r \in Routes :
          /\ (last'.op = "click" /\ last'.arg = r /\ last'.outcome = "sent") =>
                /\ rows'[r].currentStatus = rows[r].currentStatus
                /\ rows'[r].innerHTML = rows[r].innerHTML
                /\ RemoveLoading(rows'[r].className) = rows[r].className
          /\ ( /\ last'.op = "cycleSettles"
               /\ last'.arg = r
               /\ last'.outcome \in {"failure", "throws"} ) =>
                /\ rows'[r].currentStatus = rows[r].currentStatus
                /\ rows'[r].innerHTML = rows[r].innerHTML
                /\ rows'[r].className = RemoveLoading(rows[r].className)
                /\ rows'[r].processing
                /\ r \in enableTimers'
                /\ UNCHANGED guardVars
          /\ (last'.op = "enableTimer" /\ last'.arg = r) =>
                /\ ~rows'[r].processing
                /\ ~rows'[r].disabled
                /\ rows'[r].currentStatus = rows[r].currentStatus
                /\ rows'[r].className = rows[r].className]_vars

C33_Witness ==
    /\ last.op = "cycleSettles"
    /\ last.outcome = "failure"
    /\ rows[last.arg].currentStatus = "arrived"
    /\ rows[last.arg].className = ClassOf("warning")
    /\ guardedUntil[last.arg] > 0
    /\ last.arg \in enableTimers

\* the three representations of a button's status agree
Agree(row) ==
    /\ row.className = ClassOf(ColorOf(row.currentStatus))
    /\ row.innerHTML = LabelOf(row.currentStatus)

\* C34: after a successful cycle-status response the button shows the status
\* the server returned (whatever the button showed before) and its
\* currentStatus, class and label agree; a status other than ready and arrived
\* is shown as danger / Not Present.  The same agreement holds for a button
\* that updateRouteData has just patched with a delta whose status_color is
\* the colour of its status.
C34_RepresentationsAgree ==
    [][/\ \A r \in Routes :
            /\ ( /\ last'.op = "cycleSettles"
                 /\ last'.arg = r
                 /\ last'.outcome = "success" ) =>
                  /\ rows'[r].currentStatus = cycleReq[r].status
                  /\ Agree(rows'[r])
            /\ ( /\ last'.op = "poll"
                 /\ r \in last'.patched
                 /\ last'.data.routes[r].status_color
                       = ColorOf(last'.data.routes[r].status) ) =>
                  /\ rows'[r].currentStatus = last'.data.routes[r].status
                  /\ Agree(rows'[r])
       /\ \A s \in Status \cup {"unknown"}, r \in Routes :
            LET b == buttonAfterResponse(rows[r], TRUE, s) IN
            /\ b.currentStatus = s
            /\ b.className =
                  ClassOf(CASE s = "ready" -> "success"
                            [] s = "arrived" -> "warning"
                            [] OTHER -> "danger")
            /\ b.innerHTML =
                  (CASE s = "ready" -> "Ready"
                     [] s = "arrived" -> "Arrived"
                     [] OTHER -> "Not Present")]_vars

C34_Witness ==
    /\ last.op = "cycleSettles"
    /\ last.outcome = "success"
    /\ rows[last.arg].currentStatus = "ready"
    /\ rows[last.arg].currentStatus = serverStatus[last.arg]
    /\ Agree(rows[last.arg])
    /\ lastUpdate > 0

C36_FadeSwapRestore ==
    [][/\ (last'.op = "pageFetch" /\ last'.outcome = "ok") =>
             /\ refresh'.stage = "swapping"
             /\ refresh'.opacity = "0.5"
             /\ rows' = rows
             /\ ~reloaded'
       /\ last'.op = "swap" =>
             /\ refresh.stage = "swapping"
             /\ refresh.opacity = "0.5"
             /\ \A r \in Routes :
                   /\ cloneNode(rows'[r]) = cloneNode(refresh.snapshot[r])
                   /\ rows'[r].present => rows'[r].changeListener
             /\ refresh'.stage = "idle"
             /\ refresh'.opacity = "1"
       /\ (last'.op = "pageFetch" /\ last'.outcome \in {"notOk", "noTbody"}) =>
             /\ rows' = rows
             /\ refresh'.opacity = refresh.opacity
             /\ refresh'.stage = "idle"
             /\ ~reloaded'
       /\ (last'.op = "pageFetch" /\ last'.outcome = "throws") =>
             /\ reloaded'
             /\ rows' = rows
       /\ refresh.opacity = "0.5" <=> refresh.stage = "swapping"]_vars

C36_Witness ==
    /\ last.op = "swap"
    /\ currentPage = "routes"
    /\ rows[1].present
    /\ rows[1].currentStatus = "ready"
    /\ rows[1].changeListener
    /\ refresh.opacity = "1"
    /\ refresh.stage = "idle"

\* C37: a content-only refresh does not overwrite the device's own update.
\* When the swap runs while route r's button shows the status the store
\* holds, written by this device's own successful cycle-status, and the
\* fetched HTML still carries an older status of r (it was rendered before
\* that write), r's row does not show that older status after the swap.
C37_OwnUpdateSurvivesRefresh ==
    [][\A r \in Routes :
          ( /\ last'.op = "swap"
            /\ rows[r].present
            /\ cycleReq[r].stage = "none"
            /\ guardedUntil[r] # 0
            /\ rows[r].currentStatus = serverStatus[r]
            /\ refresh.snapshot[r].present
            /\ refresh.snapshot[r].currentStatus # serverStatus[r] )
          => rows'[r].currentStatus # refresh.snapshot[r].currentStatus]_vars

\* C38: debounce(func, wait).  A call never runs func itself: it leaves
\* exactly one timer pending, due wait later with the call's arguments.  func
\* runs only from that timer, so wait after the latest call and with that
\* call's arguments, after which no timer is pending: once per burst of calls
\* less than wait apart.
C38_Debounce ==
    [][/\ last'.op = "debounceCall" =>
             /\ util'.lastRun = util.lastRun
             /\ util'.debounce.timers =
                   {[due |-> util.clock + util.debounce.wait,
                     arg |-> last'.arg]}
       /\ util'.lastRun # util.lastRun =>
             /\ last'.op = "later"
             /\ util.burst >= 1
             /\ util.clock = util.lastCall + util.debounce.wait
             /\ last'.arg = util.lastArg
             /\ util'.debounce.timers = {}
       /\ util.burst >= 1 <=> util.debounce.timers # {}
       /\ \A tm \in util.debounce.timers : tm.due >= util.clock]_vars

C38_Witness ==
    /\ last.op = "later"
    /\ last.arg = 2
    /\ util.debounce.wait = 2
    /\ util.clock = util.lastCall + 2
    /\ util.ranFor = 2
    /\ util.lastRun = util.clock
    /\ util.debounce.timers = {}

\* C39: throttle(func, limit).  A call runs func, at once, exactly when func
\* has not run yet or last ran at least limit ago: the first call runs it, a
\* call less than limit after a run is dropped and leaves nothing behind
\* that would run later, a call after the window runs it again.  func runs
\* from calls only, so two runs are at least limit apart.
C39_Throttle ==
    [][/\ last'.op = "throttleCall" =>
             /\ last'.outcome = "func"
                   <=> \/ util.lastInvoke = Never
                       \/ util.clock - util.lastInvoke >= util.throttle.limit
             /\ last'.outcome = "dropped" =>
                   /\ util'.throttle = util.throttle
                   /\ util'.lastInvoke = util.lastInvoke
             /\ last'.outcome = "func" => util'.lastInvoke = util.clock
       /\ util'.lastInvoke # util.lastInvoke =>
             /\ last'.op = "throttleCall"
             /\ util.lastInvoke # Never =>
                   util'.lastInvoke - util.lastInvoke >= util.throttle.limit]_vars

C39_Witness ==
    /\ last.op = "throttleCall"
    /\ last.outcome = "dropped"
    /\ util.throttle.limit = 2
    /\ util.lastInvoke = 2
    /\ util.clock = 3
    /\ util.throttle.inThrottle

====
